---- MODULE Spec2Model ----
(***************************************************************************)
(* A model of the JAR patcher of minecraft-mod-jar-patcher.                *)
(*                                                                         *)
(*   Spec        JarPatcher.apply(): the gate (existence, META, MD5), the  *)
(*               workspace preparation, extraction, run(), the repack and  *)
(*               the final removal of the workspace, one action per step   *)
(*               of src/mods/patcher.py, over a small file system.         *)
(*   RecipeSpec  JarPatcher.modify_recipe() called on a recipe file of the *)
(*               workspace with every combination of arguments drawn from  *)
(*               small sets.                                               *)
(***************************************************************************)
EXTENDS Integers, Sequences, FiniteSets, TLC

VARIABLES
    \* ---- apply() ----
    pc,           \* position of apply()
    err,          \* which raise ended apply() ("none" while it runs)
    fs,           \* the files at jar_path, jar_path + ".__new__" and output_dir/name
    work_dir,     \* the directory ~/.cache/<code>
    cfg,          \* the constructor's arguments and the state of META for them
    fs0,          \* fs when apply() was called
    work_dir0,    \* work_dir when apply() was called
    created,      \* apply() has reached work_dir.mkdir()
    pending,      \* files rglob has still to give to z.write
    packed,       \* the files of the workspace when the repack began
    steps,        \* number of workspace operations run() has made
    \* ---- modify_recipe() ----
    disk,         \* the recipe file in the workspace
    call,         \* the arguments of the last modify_recipe call
    before,       \* the recipe file when that call began
    result,       \* how that call ended
    printed,      \* what that call printed
    \* ---- paint() ----
    version,      \* the painter's version string
    input_file,   \* whether a file is at input_path
    ppc,          \* position of paint()
    perr,         \* which raise ended paint() ("none" while it runs)
    opened,       \* Image.open(input_path) has been called
    size,         \* w * h of the opened image
    xy,           \* pixels the loop has visited
    px,           \* the pixel the loop read last
    hit,          \* what the loop decided about it
    outpx,        \* the pixel the loop put in its place
    saved,        \* out.save(output_path) has written the file
    grad,         \* the last direct call of gradient_color
    \* ---- read_json() ... remove_dir() ----
    dirs,         \* the directories of the file system, as paths from the root
    files,        \* its regular files
    files0,       \* its regular files before the helper was called
    hcall,        \* the helper called last and its arguments
    hresult,      \* how that call ended
    accessed,     \* the paths that call read, wrote or deleted
    \* ---- two apply() runs side by side ----
    rpc,          \* position of each run
    rcfg,         \* output_dir of each run
    pfs,          \* the files at the source, temporary and output paths
    pfs0,         \* pfs before the runs
    wss,          \* the directories under ~/.cache, by name
    touched,      \* the directories under ~/.cache each run has read, written or deleted
    outcome,      \* the file at each run's output path when the run returned
    overlapped,   \* a run has taken a step while the other was between its first and last step
    \* ---- the batch driver, build.py ----
    bpc,            \* position of main()
    mod_in_meta,    \* args.mod_name in META
    src_jars,       \* the *.jar files in src/<mod_name>
    jar_files,      \* the list find_jar_files returned
    iterations,     \* iterations of the loop over jar_files that have ended
    success_count,
    skip_count,
    fail_count,
    calls,          \* the calls of process_jar made, in order
    exit_code       \* the argument of sys.exit, -1 before it

applyVars == <<pc, err, fs, work_dir, cfg, fs0, work_dir0, created, pending, packed, steps>>
recipeVars == <<disk, call, before, result, printed>>
paintVars == <<version, input_file, ppc, perr, opened, size, xy, px, hit, outpx, saved, grad>>
helperVars == <<dirs, files, files0, hcall, hresult, accessed>>
pairVars == <<rpc, rcfg, pfs, pfs0, wss, touched, outcome, overlapped>>
batchVars == <<bpc, mod_in_meta, src_jars, jar_files, iterations, success_count, skip_count, fail_count, calls, exit_code>>
vars == <<applyVars, recipeVars, paintVars, helperVars, pairVars, batchVars>>
\* what apply() leaves alone, what modify_recipe() leaves alone, what paint()
\* leaves alone, what the workspace helpers leave alone
notApply == <<recipeVars, paintVars, helperVars, pairVars, batchVars>>
notRecipe == <<applyVars, paintVars, helperVars, pairVars, batchVars>>
notPaint == <<applyVars, recipeVars, helperVars, pairVars, batchVars>>
notHelper == <<applyVars, recipeVars, paintVars, pairVars, batchVars>>
notPair == <<applyVars, recipeVars, paintVars, helperVars, batchVars>>
notBatch == <<applyVars, recipeVars, paintVars, helperVars, pairVars>>

(***************************************************************************)
(* Bounds of the model.                                                    *)
(***************************************************************************)
\* run() makes at most this many workspace operations
MaxRunSteps == 2
\* contents a file of the workspace can have: 0 .. MaxContent
MaxContent == 1
\* longest update value, in characters
MaxStrLen == 4
\* most entries of a keys_to_remove list
MaxRemovals == 2
\* most characters of a new pattern, over all its rows
MaxCells == 3
\* most pixels of an input image
MaxPixels == 2
\* most segments of a rel argument of a workspace helper
MaxSegs == 3
\* gradient_color is called directly with t = j / (4 * TSub), j from -1 to 4 * TSub + 1
TSub == 2
\* a power t ** t_gamma is one of GammaGrid + 1 evenly spaced values, or a bound of its range
GammaGrid == 8

(***************************************************************************)
(* The file system.                                                        *)
(***************************************************************************)
\* entry names inside the archive and the workspace
Names == {"a.json", "b.png"}
Contents == 0 .. MaxContent

\* A file is an archive: its entries are <<name, content>> pairs; closed is
\* false while a ZipFile opened for writing has not been closed.
NoFile == [exists |-> FALSE, entries |-> {}, closed |-> FALSE]
Archive(es) == [exists |-> TRUE, entries |-> es, closed |-> TRUE]

NoDir == [exists |-> FALSE, files |-> {}]
Dir(fl) == [exists |-> TRUE, files |-> fl]

\* the archive META knows, one with other bytes, and what earlier runs left
OrigJar == Archive({<<"a.json", 0>>, <<"b.png", 0>>})
OtherJar == Archive({<<"a.json", 1>>, <<"b.png", 0>>})
OldOutput == Archive({<<"a.json", 1>>})
StaleDir == Dir({<<"b.png", 1>>, <<"c.tmp", 0>>})

RECURSIVE SumOf(_)
SumOf(S) == IF S = {} THEN 0
            ELSE LET x == CHOOSE y \in S : TRUE IN x + SumOf(S \ {x})

\* hashlib.file_digest(f, md5): a digest of the bytes of the file, here a number
\* that differs for every two archives of the model
NameCode(n) == IF n = "a.json" THEN 1 ELSE (MaxContent + 2)
md5(f) == SumOf({NameCode(e[1]) * (e[2] + 1) : e \in f.entries})

\* META[mod_name][jar_path.name][0]
expected_md5 == md5(OrigJar)

\* self.output_path: under output_dir when one is given, else jar_path itself
output_path == IF cfg.output_dir = "none" THEN "jar" ELSE "out"
writing_to_source == (output_path = "jar")
\* a repack that writes straight to the output path
out_path_direct == output_path
\* a repack that writes to the source path whatever the output path is
out_path_source == "jar"
\* out_path of the repack: the sibling ".__new__" file when writing to the source
out_path == IF writing_to_source THEN "new" ELSE output_path

Running == pc \notin {"returned", "raised", "crashed"}

Raise(e) == /\ pc' = "raised"
            /\ err' = e

(***************************************************************************)
(* apply(), src/mods/patcher.py lines 97-141.                              *)
(***************************************************************************)
ApplyInit ==
    /\ pc = "check_exists"
    /\ err = "none"
    /\ cfg \in [output_dir : {"none", "present", "missing"},
                validate_jar : BOOLEAN,
                registered : BOOLEAN]
    /\ \E j \in {NoFile, OrigJar, OtherJar}, o \in {NoFile, OldOutput} :
          fs = [p \in {"jar", "new", "out"} |->
                  IF p = "jar" THEN j
                  ELSE IF p = "out" /\ cfg.output_dir = "present" THEN o
                  ELSE NoFile]
    /\ fs0 = fs
    /\ work_dir \in {NoDir, StaleDir}
    /\ work_dir0 = work_dir
    /\ created = FALSE
    /\ pending = {}
    /\ packed = {}
    /\ steps = 0

\* an apply() without the existence test
CheckExists_Skipped ==
    /\ pc = "check_exists"
    /\ pc' = "check_meta"
    /\ err' = err
    /\ UNCHANGED <<fs, work_dir, cfg, fs0, work_dir0, created, pending, packed, steps>>
    /\ UNCHANGED notApply

\* if not self.jar_path.exists(): raise FileNotFoundError
CheckExists ==
    /\ pc = "check_exists"
    /\ \/ /\ ~fs["jar"].exists
          /\ Raise("FileNotFoundError")
       \/ /\ fs["jar"].exists
          /\ pc' = "check_meta"
          /\ err' = err
    /\ UNCHANGED <<fs, work_dir, cfg, fs0, work_dir0, created, pending, packed, steps>>
    /\ UNCHANGED notApply

\* an apply() that looks the file name up only when it validates the archive
CheckMeta_OnlyValidating ==
    /\ pc = "check_meta"
    /\ \/ /\ cfg.validate_jar
          /\ ~cfg.registered
          /\ Raise("ValueError_format")
       \/ /\ cfg.validate_jar => cfg.registered
          /\ pc' = "check_md5"
          /\ err' = err
    /\ UNCHANGED <<fs, work_dir, cfg, fs0, work_dir0, created, pending, packed, steps>>
    /\ UNCHANGED notApply

\* an apply() that clears the workspace directory before the registry test
CheckMeta_ClearingFirst ==
    /\ pc = "check_meta"
    /\ work_dir' = NoDir
    /\ \/ /\ ~cfg.registered
          /\ Raise("ValueError_format")
       \/ /\ cfg.registered
          /\ pc' = "check_md5"
          /\ err' = err
    /\ UNCHANGED <<fs, cfg, fs0, work_dir0, created, pending, packed, steps>>
    /\ UNCHANGED notApply

\* if self.jar_path.name not in META.get(self.mod_name, {}): raise ValueError
CheckMeta ==
    /\ pc = "check_meta"
    /\ \/ /\ ~cfg.registered
          /\ Raise("ValueError_format")
       \/ /\ cfg.registered
          /\ pc' = "check_md5"
          /\ err' = err
    /\ UNCHANGED <<fs, work_dir, cfg, fs0, work_dir0, created, pending, packed, steps>>
    /\ UNCHANGED notApply

\* a gate that never compares the checksums
CheckMd5_NoCompare ==
    /\ pc = "check_md5"
    /\ pc' = "prepare"
    /\ UNCHANGED <<err, fs, work_dir, cfg, fs0, work_dir0, created, pending, packed, steps>>
    /\ UNCHANGED notApply

\* if self.validate_jar: ... if expected_md5 != actual_md5: raise ValueError
CheckMd5 ==
    /\ pc = "check_md5"
    /\ \/ /\ cfg.validate_jar
          /\ expected_md5 # md5(fs["jar"])
          /\ Raise("ValueError_md5")
       \/ /\ cfg.validate_jar => expected_md5 = md5(fs["jar"])
          /\ pc' = "prepare"
          /\ err' = err
    /\ UNCHANGED <<fs, work_dir, cfg, fs0, work_dir0, created, pending, packed, steps>>
    /\ UNCHANGED notApply

\* an apply() that does not clear the directory it finds
PrepareRmtree_Skipped ==
    /\ pc = "prepare"
    /\ pc' = "mkdir"
    /\ UNCHANGED <<err, fs, work_dir, cfg, fs0, work_dir0, created, pending, packed, steps>>
    /\ UNCHANGED notApply

\* if self.work_dir.exists(): shutil.rmtree(self.work_dir)
PrepareRmtree ==
    /\ pc = "prepare"
    /\ work_dir' = NoDir
    /\ pc' = "mkdir"
    /\ UNCHANGED <<err, fs, cfg, fs0, work_dir0, created, pending, packed, steps>>
    /\ UNCHANGED notApply

\* self.work_dir.mkdir(parents=True, exist_ok=True)
PrepareMkdir ==
    /\ pc = "mkdir"
    /\ work_dir' = Dir(work_dir.files)
    /\ created' = TRUE
    /\ pc' = "extract"
    /\ UNCHANGED <<err, fs, cfg, fs0, work_dir0, pending, packed, steps>>
    /\ UNCHANGED notApply

\* the files of a directory after entries es are extracted into it: an entry
\* replaces a file of its name
Extracted(fl, es) == {e \in fl : \A x \in es : x[1] # e[1]} \cup es

\* with zipfile.ZipFile(self.jar_path, "r") as z: z.extractall(self.work_dir)
\* extractall writes the entries one after the other; a failure (a damaged
\* archive, a write error) leaves those written so far and raises.
Extract ==
    /\ pc = "extract"
    /\ \/ /\ work_dir' = Dir(Extracted(work_dir.files, fs["jar"].entries))
          /\ pc' = "run"
          /\ err' = err
       \/ /\ \E done \in SUBSET fs["jar"].entries :
                /\ done # fs["jar"].entries
                /\ work_dir' = Dir(Extracted(work_dir.files, done))
          /\ Raise("extract_failed")
    /\ UNCHANGED <<fs, cfg, fs0, work_dir0, created, pending, packed, steps>>
    /\ UNCHANGED notApply

\* the file n of the workspace written with content c, replacing what it held
WriteFile(d, n, c) == Dir({e \in d.files : e[1] # n} \cup {<<n, c>>})
RemoveFile(d, n) == Dir({e \in d.files : e[1] # n})

\* self.run(): the patch script, a sequence of workspace operations (writes
\* of files, removals of files, the removal of a whole directory) that ends
\* by returning or by raising.
RunStep ==
    /\ pc = "run"
    /\ steps < MaxRunSteps
    /\ work_dir.exists
    /\ \/ \E n \in Names, c \in Contents : work_dir' = WriteFile(work_dir, n, c)
       \/ \E n \in Names : /\ \E e \in work_dir.files : e[1] = n
                           /\ work_dir' = RemoveFile(work_dir, n)
       \/ work_dir' = NoDir
    /\ steps' = steps + 1
    /\ UNCHANGED <<pc, err, fs, cfg, fs0, work_dir0, created, pending, packed>>
    /\ UNCHANGED notApply

RunReturn ==
    /\ pc = "run"
    /\ pc' = "repack_open"
    /\ UNCHANGED <<err, fs, work_dir, cfg, fs0, work_dir0, created, pending, packed, steps>>
    /\ UNCHANGED notApply

RunRaise ==
    /\ pc = "run"
    /\ Raise("run_failed")
    /\ UNCHANGED <<fs, work_dir, cfg, fs0, work_dir0, created, pending, packed, steps>>
    /\ UNCHANGED notApply

\* a repack that opens out_path for appending: the entries of a file already
\* there are kept
RepackOpen_Appending ==
    /\ pc = "repack_open"
    /\ \/ /\ cfg.output_dir = "missing"
          /\ Raise("repack_failed")
          /\ UNCHANGED <<fs, pending, packed>>
       \/ /\ cfg.output_dir # "missing"
          /\ fs' = [fs EXCEPT ![out_path] =
                       [exists |-> TRUE, entries |-> fs[out_path].entries,
                        closed |-> FALSE]]
          /\ pending' = work_dir.files
          /\ packed' = work_dir.files
          /\ pc' = "repack_write"
          /\ err' = err
    /\ UNCHANGED <<work_dir, cfg, fs0, work_dir0, created, steps>>
    /\ UNCHANGED notApply

\* zipfile.ZipFile(out_path, "w", ...): creates or truncates the file at
\* out_path; fails, creating nothing, when its directory does not exist.
RepackOpen ==
    /\ pc = "repack_open"
    /\ \/ /\ cfg.output_dir = "missing"
          /\ Raise("repack_failed")
          /\ UNCHANGED <<fs, pending, packed>>
       \/ /\ cfg.output_dir # "missing"
          /\ fs' = [fs EXCEPT ![out_path] =
                       [exists |-> TRUE, entries |-> {}, closed |-> FALSE]]
          /\ pending' = work_dir.files
          /\ packed' = work_dir.files
          /\ pc' = "repack_write"
          /\ err' = err
    /\ UNCHANGED <<work_dir, cfg, fs0, work_dir0, created, steps>>
    /\ UNCHANGED notApply

\* for p in self.work_dir.rglob("*"): if p.is_file(): z.write(p, ...)
\* in the order the directory walk gives; a z.write that raises leaves the
\* with block, whose exit closes the archive with the entries written so far.
RepackWrite ==
    /\ pc = "repack_write"
    /\ pending # {}
    /\ \E e \in pending :
          \/ /\ fs' = [fs EXCEPT ![out_path].entries = @ \cup {e}]
             /\ pending' = pending \ {e}
             /\ UNCHANGED <<pc, err>>
          \/ /\ fs' = [fs EXCEPT ![out_path].closed = TRUE]
             /\ Raise("repack_failed")
             /\ UNCHANGED pending
    /\ UNCHANGED <<work_dir, cfg, fs0, work_dir0, created, packed, steps>>
    /\ UNCHANGED notApply

\* the end of the with block: ZipFile.close()
RepackClose ==
    /\ pc = "repack_write"
    /\ pending = {}
    /\ fs' = [fs EXCEPT ![out_path].closed = TRUE]
    /\ pc' = IF writing_to_source THEN "replace" ELSE "rmtree"
    /\ UNCHANGED <<err, work_dir, cfg, fs0, work_dir0, created, pending, packed, steps>>
    /\ UNCHANGED notApply

\* if writing_to_source: os.replace(out_path, self.output_path)
\* one atomic rename, or an error that changes nothing
Replace ==
    /\ pc = "replace"
    /\ \/ /\ fs' = [fs EXCEPT ![output_path] = fs[out_path], ![out_path] = NoFile]
          /\ pc' = "rmtree"
          /\ err' = err
       \/ /\ Raise("repack_failed")
          /\ UNCHANGED fs
    /\ UNCHANGED <<work_dir, cfg, fs0, work_dir0, created, pending, packed, steps>>
    /\ UNCHANGED notApply

\* shutil.rmtree(self.work_dir): raises when the directory is not there
Rmtree ==
    /\ pc = "rmtree"
    /\ \/ /\ work_dir.exists
          /\ work_dir' = NoDir
          /\ pc' = "returned"
          /\ err' = err
       \/ /\ ~work_dir.exists
          /\ Raise("rmtree_failed")
          /\ UNCHANGED work_dir
    /\ UNCHANGED <<fs, cfg, fs0, work_dir0, created, pending, packed, steps>>
    /\ UNCHANGED notApply

\* the process is killed at any point of apply()
Crash ==
    /\ Running
    /\ pc' = "crashed"
    /\ UNCHANGED <<err, fs, work_dir, cfg, fs0, work_dir0, created, pending, packed, steps>>
    /\ UNCHANGED notApply

ApplyNext ==
    \/ CheckExists
    \/ CheckMeta
    \/ CheckMd5
    \/ PrepareRmtree
    \/ PrepareMkdir
    \/ Extract
    \/ RunStep
    \/ RunReturn
    \/ RunRaise
    \/ RepackOpen
    \/ RepackWrite
    \/ RepackClose
    \/ Replace
    \/ Rmtree
    \/ Crash

(***************************************************************************)
(* modify_recipe(), src/mods/patcher.py lines 275-358.                     *)
(*                                                                         *)
(* A string is the sequence of its characters.  A recipe document has the  *)
(* fields key (symbol -> list of bindings), pattern (list of rows) and     *)
(* type (every other top-level field).                                     *)
(***************************************************************************)
None == [given |-> FALSE, val |-> <<>>]
Some(x) == [given |-> TRUE, val |-> x]

\* characters str.strip() removes
Whitespace == {" ", "\t"}
StrChars == Whitespace \cup {"#", "x"}
\* the symbols of recipe keys, and the characters of pattern rows
Syms == {"W", "D"}
PatChars == Syms \cup {" "}

SeqsUpTo(S, n) == UNION {[1..m -> S] : m \in 0..n}

\* update values: strings, and a value that is no string (a number, a list)
StrValue(s) == [isstr |-> TRUE, s |-> s]
NonStr == [isstr |-> FALSE, s |-> <<>>]
Values == {StrValue(s) : s \in SeqsUpTo(StrChars, MaxStrLen)} \cup {NonStr}
SomeValues == {StrValue(<<"x">>), StrValue(<<"#", "x">>), NonStr}

\* patterns: the lists of non-empty rows with at most n characters in all
RECURSIVE PatternsOf(_)
PatternsOf(n) ==
    {<<>>} \cup
    UNION { { <<row>> \o rest : row \in [1..l -> PatChars], rest \in PatternsOf(n - l) }
            : l \in 1..n }
Patterns == PatternsOf(MaxCells)

Item(s) == <<[item |-> s]>>
Tag(s) == <<[tag |-> s]>>

NoDoc == [exists |-> FALSE, doc |-> <<>>]
Doc(k, pat) == [exists |-> TRUE,
                doc |-> [key |-> k, pattern |-> pat, type |-> "crafting_shaped"]]

\* the recipe files apply() may have extracted: the table of the end-to-end
\* scenario, recipes with two symbols, and one whose key and pattern disagree
StartDocs ==
    { Doc([k \in {"W"} |-> Item(<<"o">>)],
          << <<"W", "W", "W">>, <<"W", " ", "W">>, <<"W", "W", "W">> >>),
      Doc([k \in {"W", "D"} |-> IF k = "W" THEN Item(<<"o">>) ELSE Tag(<<"p">>)],
          << <<"W", "D">>, <<"D", " ">> >>),
      Doc([k \in {"D"} |-> Tag(<<"p">>)], << <<"D">> >>),
      Doc([k \in {"W", "D"} |-> Item(<<"o">>)], << <<"W", "W">> >>),
      Doc([k \in {} |-> <<>>], <<>>) }

\* v.strip()
RECURSIVE lstrip(_)
lstrip(s) == IF s # <<>> /\ Head(s) \in Whitespace THEN lstrip(Tail(s)) ELSE s
RECURSIVE rstrip(_)
rstrip(s) == IF s # <<>> /\ s[Len(s)] \in Whitespace
             THEN rstrip(SubSeq(s, 1, Len(s) - 1)) ELSE s
strip(s) == rstrip(lstrip(s))

\* a normalisation that does not strip
normalize_value_unstripped(v) ==
    IF v.s # <<>> /\ Head(v.s) = "#" THEN Tag(Tail(v.s)) ELSE Item(v.s)

\* _normalize_value(v) for a string v (lines 322-326)
normalize_value(v) ==
    LET s == strip(v.s)
    IN IF s # <<>> /\ Head(s) = "#" THEN Tag(Tail(s)) ELSE Item(s)

\* set(xs) of a list
ToSet(xs) == {xs[i] : i \in DOMAIN xs}

\* a check that looks at the first removal only
Conflict_first_only(c) ==
    /\ c.keys_to_remove.given
    /\ c.keys_to_remove.val # <<>>
    /\ Head(c.keys_to_remove.val) \in DOMAIN c.keys_to_update

\* keys_to_remove is not None and set(keys_to_remove) & set(keys_to_update.keys())
Conflict(c) ==
    /\ c.keys_to_remove.given
    /\ ToSet(c.keys_to_remove.val) \cap DOMAIN c.keys_to_update # {}

\* a normalisation that skips the values that are no strings
normalize_all_skipping(upd) ==
    LET good == {k \in DOMAIN upd : upd[k].isstr}
    IN [raised |-> FALSE, val |-> [k \in good |-> normalize_value(upd[k])]]

\* {k: _normalize_value(v) for k, v in keys_to_update.items()}: raises at the
\* first value that is no string, and then no entry of the result exists
normalize_all(upd) ==
    IF \E k \in DOMAIN upd : ~upd[k].isstr
    THEN [raised |-> TRUE, val |-> <<>>]
    ELSE [raised |-> FALSE, val |-> [k \in DOMAIN upd |-> normalize_value(upd[k])]]

\* a removal loop that ends at the first key that is not there
RECURSIVE remove_keys_stopping(_, _)
remove_keys_stopping(key, rem) ==
    IF rem = <<>> THEN [key |-> key, printed |-> <<>>]
    ELSE IF Head(rem) \in DOMAIN key
    THEN remove_keys_stopping([k \in DOMAIN key \ {Head(rem)} |-> key[k]], Tail(rem))
    ELSE [key |-> key, printed |-> <<Head(rem)>>]

\* for k in keys_to_remove: if k in recipe_data['key']: del ... else: print(...)
RECURSIVE remove_keys(_, _)
remove_keys(key, rem) ==
    IF rem = <<>> THEN [key |-> key, printed |-> <<>>]
    ELSE IF Head(rem) \in DOMAIN key
    THEN remove_keys([k \in DOMAIN key \ {Head(rem)} |-> key[k]], Tail(rem))
    ELSE LET r == remove_keys(key, Tail(rem))
         IN [key |-> r.key, printed |-> <<Head(rem)>> \o r.printed]

\* an update that keeps the binding a symbol already has
update_keeping_old(key, upd) ==
    [k \in DOMAIN key \cup DOMAIN upd |-> IF k \in DOMAIN key THEN key[k] ELSE upd[k]]

\* recipe_data['key'].update(keys_to_update)
update(key, upd) ==
    [k \in DOMAIN key \cup DOMAIN upd |-> IF k \in DOMAIN upd THEN upd[k] ELSE key[k]]

\* ''.join(rows)
RECURSIVE join(_)
join(rows) == IF rows = <<>> THEN <<>> ELSE Head(rows) \o join(Tail(rows))
\* s.replace(' ', '')
remove_spaces(s) == SelectSeq(s, LAMBDA ch : ch # " ")

\* a check that the pattern uses no unknown key, and nothing more
unknown_keys_subset(pattern, recipe_data) ==
    LET rows == IF pattern.given /\ pattern.val # <<>>
                THEN pattern.val ELSE recipe_data.pattern
    IN ~(ToSet(remove_spaces(join(rows))) \subseteq DOMAIN recipe_data.key)

\* set(''.join(pattern or recipe_data['pattern']).replace(' ', ''))
\*     != set(recipe_data['key'].keys())
unknown_keys(pattern, recipe_data) ==
    LET rows == IF pattern.given /\ pattern.val # <<>>
                THEN pattern.val ELSE recipe_data.pattern
    IN ToSet(remove_spaces(join(rows))) # DOMAIN recipe_data.key

Raised(exc, site, d, out) ==
    [status |-> "raised", exc |-> exc, site |-> site, disk |-> d, printed |-> out]
Returned_ok(d, out) ==
    [status |-> "ok", exc |-> "", site |-> "", disk |-> d, printed |-> out]

\* a check made after the file is written
write_then_check(d, c, recipe_data, out) ==
    IF unknown_keys(c.pattern, recipe_data)
    THEN Raised("ValueError", "schema", [d EXCEPT !.doc = recipe_data], out)
    ELSE Returned_ok([d EXCEPT !.doc = recipe_data], out)

\* lines 351-358: the check, then self.write_json(recipe_path, recipe_data)
check_then_write(d, c, recipe_data, out) ==
    IF unknown_keys(c.pattern, recipe_data)
    THEN Raised("ValueError", "schema", d, out)
    ELSE Returned_ok([d EXCEPT !.doc = recipe_data], out)

\* an edit that adds the rows of a new pattern to the rows the recipe has
edit_extending_pattern(doc, c, upd) ==
    LET removed == IF c.keys_to_remove.given
                   THEN remove_keys(doc.key, c.keys_to_remove.val)
                   ELSE [key |-> doc.key, printed |-> <<>>]
        key2 == update(removed.key, upd)
        pat == IF c.pattern.given THEN doc.pattern \o c.pattern.val ELSE doc.pattern
    IN [data |-> [doc EXCEPT !.key = key2, !.pattern = pat],
        printed |-> removed.printed]

\* lines 333-349: the edit of recipe_data in memory
edit(doc, c, upd) ==
    LET removed == IF c.keys_to_remove.given
                   THEN remove_keys(doc.key, c.keys_to_remove.val)
                   ELSE [key |-> doc.key, printed |-> <<>>]
        key2 == update(removed.key, upd)
        pat == IF c.pattern.given THEN c.pattern.val ELSE doc.pattern
    IN [data |-> [doc EXCEPT !.key = key2, !.pattern = pat],
        printed |-> removed.printed]

\* modify_recipe(recipe_path, keys_to_update, keys_to_remove, pattern) on the
\* recipe file d: how it ends, the file afterwards, and what it printed
modify_recipe(d, c) ==
    IF Conflict(c) THEN Raised("ValueError", "conflict", d, <<>>)
    ELSE IF ~d.exists THEN Raised("FileNotFoundError", "read", d, <<>>)
    ELSE LET n == normalize_all(c.keys_to_update)
         IN IF n.raised THEN Raised("ValueError", "binding", d, <<>>)
            ELSE LET e == edit(d.doc, c, n.val)
                 IN check_then_write(d, c, e.data, e.printed)

NoCall == [keys_to_update |-> <<>>, keys_to_remove |-> None, pattern |-> None]
NoResult == [status |-> "none", exc |-> "", site |-> ""]

RecipeInit ==
    /\ disk \in StartDocs \cup {NoDoc}
    /\ before = disk
    /\ call = NoCall
    /\ result = NoResult
    /\ printed = <<>>

Outcome(c) ==
    LET r == modify_recipe(disk, c)
    IN /\ call' = c
       /\ before' = disk
       /\ disk' = r.disk
       /\ result' = [status |-> r.status, exc |-> r.exc, site |-> r.site]
       /\ printed' = r.printed

\* the patch script calls modify_recipe with some updates, removals and pattern
CallModifyRecipe ==
    /\ result.status = "none"
    /\ \E ks \in SUBSET Syms :
       \E upd \in [ks -> SomeValues] :
       \E rem \in {None} \cup {Some(r) : r \in SeqsUpTo(Syms, MaxRemovals)} :
       \E pat \in {None} \cup {Some(q) : q \in Patterns} :
          Outcome([keys_to_update |-> upd, keys_to_remove |-> rem, pattern |-> pat])
    /\ UNCHANGED notRecipe

\* the patch script calls modify_recipe with one update of any value
CallUpdateOne ==
    /\ result.status = "none"
    /\ \E k \in Syms, v \in Values :
          Outcome([keys_to_update |-> [x \in {k} |-> v],
                   keys_to_remove |-> None, pattern |-> None])
    /\ UNCHANGED notRecipe

\* the patch script makes the call that returned once more, with the same
\* arguments, on the file the first call wrote; before stays the file the
\* first call found
CallAgain ==
    /\ result.status = "ok"
    /\ LET r == modify_recipe(disk, call)
       IN /\ disk' = r.disk
          /\ result' = [status |-> IF r.status = "ok" THEN "ok_again" ELSE "raised_again",
                        exc |-> r.exc, site |-> r.site]
          /\ printed' = r.printed
    /\ UNCHANGED <<call, before>>
    /\ UNCHANGED notRecipe

\* no pixel read or put yet
NoPixel == [r |-> -1, g |-> -1, b |-> -1, a |-> -1]
\* gradient_color not called directly
NoGrad == [called |-> FALSE]

\* no painter is at work
PaintIdle ==
    /\ version = "none"
    /\ input_file = "none"
    /\ ppc = "idle"
    /\ perr = "none"
    /\ opened = FALSE
    /\ size = 0
    /\ xy = 0
    /\ px = NoPixel
    /\ hit = "none"
    /\ outpx = NoPixel
    /\ saved = FALSE
    /\ grad = NoGrad

\* no batch build
BatchIdle ==
    /\ bpc = "idle"
    /\ mod_in_meta = FALSE
    /\ src_jars = {}
    /\ jar_files = <<>>
    /\ iterations = 0
    /\ success_count = 0
    /\ skip_count = 0
    /\ fail_count = 0
    /\ calls = <<>>
    /\ exit_code = -1

\* no pair of runs
PairIdle ==
    /\ rpc = <<>>
    /\ rcfg = <<>>
    /\ pfs = <<>>
    /\ pfs0 = <<>>
    /\ wss = <<>>
    /\ touched = <<>>
    /\ outcome = <<>>
    /\ overlapped = FALSE

\* no helper has been called, on no file system
HelperIdle ==
    /\ dirs = {}
    /\ files = {}
    /\ files0 = {}
    /\ hcall = [name |-> "none"]
    /\ hresult = "none"
    /\ accessed = {}

ApplyIdle ==
    /\ pc = "idle"
    /\ err = "none"
    /\ fs = <<>>
    /\ work_dir = NoDir
    /\ cfg = <<>>
    /\ fs0 = <<>>
    /\ work_dir0 = NoDir
    /\ created = FALSE
    /\ pending = {}
    /\ packed = {}
    /\ steps = 0

RecipeNext ==
    \/ CallModifyRecipe
    \/ CallUpdateOne

RecipeSpecInit == ApplyIdle /\ RecipeInit /\ PaintIdle /\ HelperIdle /\ PairIdle /\ BatchIdle

RecipeSpec == RecipeSpecInit /\ [][RecipeNext]_vars

\* a patch applied, and applied again
ReapplyNext ==
    \/ CallModifyRecipe
    \/ CallAgain

ReapplySpec == RecipeSpecInit /\ [][ReapplyNext]_vars

RecipeIdle ==
    /\ disk = NoDoc
    /\ call = NoCall
    /\ before = NoDoc
    /\ result = NoResult
    /\ printed = <<>>

(***************************************************************************)
(* TransmutationTabletPainter: paint(), is_reddish_or_pink(),              *)
(* gradient_color().  Floats are kept as exact fractions: a value t is a   *)
(* numerator over a stated denominator.                                    *)
(***************************************************************************)
\* the keys of PALETTES, and a version string that is not one of them
Versions == {"v2", "v3", "v4", "v5", "v6", "v7"}
VersionArgs == Versions \cup {"v1"}

\* PALETTES: the five stops, and t_scale, t_bias, t_gamma in hundredths
PALETTES ==
    [v \in Versions |->
        CASE v = "v2" ->
               [stops |-> << <<180, 233, 255>>, <<125, 225, 255>>, <<85, 205, 255>>,
                             <<55, 170, 220>>, <<25, 120, 180>> >>,
                t_scale |-> 95, t_bias |-> 5, t_gamma |-> 100]
          [] v = "v3" ->
               [stops |-> << <<150, 215, 245>>, <<100, 200, 240>>, <<70, 175, 235>>,
                             <<42, 145, 205>>, <<18, 95, 155>> >>,
                t_scale |-> 118, t_bias |-> 8, t_gamma |-> 92]
          [] v = "v4" ->
               [stops |-> << <<180, 233, 255>>, <<180, 233, 255>>, <<70, 175, 235>>,
                             <<70, 175, 235>>, <<18, 95, 155>> >>,
                t_scale |-> 118, t_bias |-> 8, t_gamma |-> 92]
          [] v = "v5" ->
               [stops |-> << <<180, 233, 255>>, <<180, 233, 255>>, <<85, 205, 255>>,
                             <<85, 205, 255>>, <<18, 95, 155>> >>,
                t_scale |-> 118, t_bias |-> 8, t_gamma |-> 92]
          [] v = "v6" ->
               [stops |-> << <<180, 233, 255>>, <<180, 233, 255>>, <<85, 205, 255>>,
                             <<85, 205, 255>>, <<22, 110, 170>> >>,
                t_scale |-> 118, t_bias |-> 8, t_gamma |-> 92]
          [] v = "v7" ->
               [stops |-> << <<180, 233, 255>>, <<180, 233, 255>>, <<76, 187, 243>>,
                             <<76, 187, 243>>, <<22, 110, 170>> >>,
                t_scale |-> 118, t_bias |-> 8, t_gamma |-> 92]]

\* the channel values and the alpha values of the pixels an input image has
RedLevels == {100, 144, 200, 255}
Levels == {50, 100, 150, 255}
Alphas == {0, 128, 255}
\* two colours whose exact hue (0.78) or saturation (0.08) equals the literal
\* it is compared with
TiePixels == {[r |-> 31, g |-> 14, b |-> 39, a |-> 255],
              [r |-> 125, g |-> 115, b |-> 115, a |-> 255]}
Pixels == [r : RedLevels, g : Levels, b : Levels, a : Alphas] \cup TiePixels

Max2(x, y) == IF x >= y THEN x ELSE y
Min2(x, y) == IF x <= y THEN x ELSE y

\* q and r with k * x = q * d + r and 0 <= r < d, for k >= 0 and 0 <= x <= d,
\* by doubling, so that no product leaves 32 bits
MulDivStep(hq, s, d) == [q |-> 2 * hq + s \div d, r |-> s % d]
MulDivDouble(h, k, x, d) == MulDivStep(h.q, 2 * h.r + (IF k % 2 = 1 THEN x ELSE 0), d)
RECURSIVE MulDiv(_, _, _)
MulDiv(k, x, d) ==
    IF k = 0 THEN [q |-> 0, r |-> 0]
    ELSE MulDivDouble(MulDiv(k \div 2, x, d), k, x, d)

\* int(round(a + (b - a) * t)) for t = tn / td: round() takes a half to the even side
\* round(fl + rm / td) for 0 <= rm < td
RoundHalfEven(fl, rm, td) ==
    IF 2 * rm < td THEN fl
    ELSE IF 2 * rm > td THEN fl + 1
    ELSE IF fl % 2 = 0 THEN fl ELSE fl + 1

\* a + (b - a) * t = fl + rm / td, from the quotient q and remainder r of |b - a| * tn by td
LerpRound(a, b, q, r, td) ==
    IF b >= a THEN RoundHalfEven(a + q, r, td)
    ELSE IF r = 0 THEN RoundHalfEven(a - q, 0, td)
    ELSE RoundHalfEven(a - q - 1, td - r, td)

LerpOf(a, b, m, td) == LerpRound(a, b, m.q, m.r, td)

lerp(a, b, tn, td) == LerpOf(a, b, MulDiv(IF b >= a THEN b - a ELSE a - b, tn, td), td)

\* a local_t that forgets that a segment is a quarter wide
local_t_unscaled(tn, seg, td) == (4 * tn - seg * td) \div 4

\* local_t = (t - seg / 4.0) * 4.0, as a numerator over td
local_t(tn, seg, td) == 4 * tn - seg * td

\* gradient_color(stops, t) for t = tn / td
gradient_color(stops, tn, td) ==
    LET t == Max2(0, Min2(td, tn))
        seg == Min2((4 * t) \div td, 3)
        lt == local_t(t, seg, td)
        c1 == stops[seg + 1]
        c2 == stops[seg + 2]
    IN  << lerp(c1[1], c2[1], lt, td), lerp(c1[2], c2[2], lt, td), lerp(c1[3], c2[3], lt, td) >>

\* How a float comparison falls when the exact values are equal: the computed
\* hue is below, at or above the literal it is compared with, and the computed
\* saturation is below 0.08 or not.
FloatTies == [h : {"lt", "eq", "gt"}, s : {"lt", "ge"}]

\* the hue of colorsys.rgb_to_hsv, times 6 * (maxc - minc)
hue6(r, g, b) ==
    LET maxc == Max2(r, Max2(g, b))
        d == maxc - Min2(r, Min2(g, b))
    IN  (IF r = maxc THEN g - b
         ELSE IF g = maxc THEN 2 * d + (b - r)
         ELSE 4 * d + (r - g)) % (6 * d)

\* an RGB test whose second clause starts at r = 140 as well
rgb_hit_from_140(r, g, b) ==
    \/ r >= 140 /\ r >= g + 8 /\ r >= b + 8
    \/ r >= 140 /\ (g >= 150 \/ b >= 150)

\* (r >= 140 and r >= g + 8 and r >= b + 8) or (r >= 200 and (g >= 150 or b >= 150))
rgb_hit(r, g, b) ==
    \/ r >= 140 /\ r >= g + 8 /\ r >= b + 8
    \/ r >= 200 /\ (g >= 150 \/ b >= 150)

\* (red_hue or magenta_hue) and s >= 0.08 and v >= 0.15
hsv_hit(r, g, b, fl) ==
    LET maxc == Max2(r, Max2(g, b))
        d == maxc - Min2(r, Min2(g, b))
        H == 100 * hue6(r, g, b)
        \* h <= c / 600 and h >= c / 600
        le(c) == H < c * d \/ (H = c * d /\ fl.h \in {"lt", "eq"})
        ge(c) == H > c * d \/ (H = c * d /\ fl.h \in {"eq", "gt"})
        red_hue == le(36) \/ ge(510)
        magenta_hue == ge(468) /\ le(510)
        s_ok == 100 * d > 8 * maxc \/ (100 * d = 8 * maxc /\ fl.s = "ge")
        v_ok == 100 * maxc >= 15 * 255
    IN  \* rgb_to_hsv gives h = 0 and s = 0 when maxc = minc
        d # 0 /\ (red_hue \/ magenta_hue) /\ s_ok /\ v_ok

\* the ways the comparisons of hsv_hit can fall for one colour: a comparison
\* of unequal exact values falls one way
FloatTiesAt(r, g, b) ==
    LET maxc == Max2(r, Max2(g, b))
        d == maxc - Min2(r, Min2(g, b))
        H == 100 * hue6(r, g, b)
    IN  {fl \in FloatTies :
            /\ (d = 0 \/ H \notin {36 * d, 468 * d, 510 * d}) => fl.h = "eq"
            /\ (d = 0 \/ 100 * d # 8 * maxc) => fl.s = "ge"}

\* a classifier that has the HSV test only
is_reddish_or_pink_hsv_only(r, g, b, fl) == hsv_hit(r, g, b, fl)

\* is_reddish_or_pink(r, g, b)
is_reddish_or_pink(r, g, b, fl) == hsv_hit(r, g, b, fl) \/ rgb_hit(r, g, b)

\* the denominator of t in paint(): Y is in 1/10000, Y / 255, t_scale and t_bias in 1/100
TDen == 255 * 10000 * 100

\* luminance(r, g, b), times 10000
luminance(r, g, b) == 2126 * r + 7152 * g + 722 * b

\* t = min(1.0, max(0.0, (1.0 - Y / 255.0) * t_scale + t_bias)), times TDen
scaled_t(r, g, b, p) ==
    Min2(TDen, Max2(0,
        (255 * 10000 - luminance(r, g, b)) * p.t_scale + p.t_bias * 255 * 10000))

\* t ** t_gamma, times TDen.  For 0 < t_gamma < 1 and 0 < t < 1 the power is
\* irrational and lies between t and t_gamma * t + (1 - t_gamma); the model
\* lets it be either end of that range or a grid value inside it.
pow_outcomes(tn, gamma) ==
    IF tn = 0 \/ tn = TDen THEN {tn}
    ELSE LET hi == gamma * ((tn + 99) \div 100) + (100 - gamma) * (TDen \div 100)
         IN  {tn, hi} \cup
             {u \in {k * (TDen \div GammaGrid) : k \in 0 .. GammaGrid} : tn <= u /\ u <= hi}

\* the values t can have when paint() calls gradient_color:
\* if t_gamma != 1.0: t = max(0.0, min(1.0, t ** t_gamma))
final_t(r, g, b, p) ==
    IF p.t_gamma = 100 THEN {scaled_t(r, g, b, p)}
    ELSE pow_outcomes(scaled_t(r, g, b, p), p.t_gamma)

\* a new painter and a call of paint(), or a caller of gradient_color alone
PaintInit ==
    /\ version \in VersionArgs
    /\ input_file \in {"image", "missing"}
    /\ ppc \in {"check_version", "idle"}
    /\ perr = "none"
    /\ opened = FALSE
    /\ size = 0
    /\ xy = 0
    /\ px = NoPixel
    /\ hit = "none"
    /\ outpx = NoPixel
    /\ saved = FALSE
    /\ grad = NoGrad

PaintRaise(e) ==
    /\ ppc' = "raised"
    /\ perr' = e

\* a paint() that opens the image before it looks at the version
PaintCheckVersion_AfterOpen ==
    /\ ppc = "check_version"
    /\ opened' = TRUE
    /\ IF version \notin DOMAIN PALETTES
       THEN PaintRaise("ValueError")
       ELSE ppc' = "loop" /\ perr' = perr
    /\ \E n \in 1 .. MaxPixels : size' = n
    /\ UNCHANGED <<version, input_file, xy, px, hit, outpx, saved, grad>>
    /\ UNCHANGED notPaint

\* if self.version not in self.PALETTES: raise ValueError(...)
PaintCheckVersion ==
    /\ ppc = "check_version"
    /\ IF version \notin DOMAIN PALETTES
       THEN PaintRaise("ValueError")
       ELSE ppc' = "open" /\ perr' = perr
    /\ UNCHANGED <<version, input_file, opened, size, xy, px, hit, outpx, saved, grad>>
    /\ UNCHANGED notPaint

\* img = Image.open(self.input_path).convert("RGBA"); out = Image.new(...)
PaintOpen ==
    /\ ppc = "open"
    /\ opened' = TRUE
    /\ IF input_file = "missing"
       THEN PaintRaise("FileNotFoundError") /\ size' = size
       ELSE /\ \E n \in 1 .. MaxPixels : size' = n
            /\ ppc' = "loop"
            /\ perr' = perr
    /\ UNCHANGED <<version, input_file, xy, px, hit, outpx, saved, grad>>
    /\ UNCHANGED notPaint

Transparent == [r |-> 0, g |-> 0, b |-> 0, a |-> 0]
Recolored(p, t) ==
    LET c == gradient_color(PALETTES[version].stops, t, TDen)
    IN  [r |-> c[1], g |-> c[2], b |-> c[3], a |-> p.a]

\* a loop body that puts a recoloured pixel as fully opaque
put_opaque(p, fl, t) ==
    IF p.a = 0 THEN [hit |-> "transparent", out |-> Transparent]
    ELSE IF is_reddish_or_pink(p.r, p.g, p.b, fl)
    THEN [hit |-> "reddish", out |-> [Recolored(p, t) EXCEPT !.a = 255]]
    ELSE [hit |-> "other", out |-> p]

\* a loop body without the alpha test: a pixel of alpha 0 is classified
\* and put like any other
put_without_alpha_test(p, fl, t) ==
    IF is_reddish_or_pink(p.r, p.g, p.b, fl)
    THEN [hit |-> "reddish", out |-> Recolored(p, t)]
    ELSE [hit |-> "other", out |-> p]

\* a loop body without the else branch: a pixel that is not selected is
\* mapped through the gradient like one that is
put_recoloring_all(p, fl, t) ==
    IF p.a = 0 THEN [hit |-> "transparent", out |-> Transparent]
    ELSE [hit |-> IF is_reddish_or_pink(p.r, p.g, p.b, fl) THEN "reddish" ELSE "other",
          out |-> Recolored(p, t)]

\* one pass of the loop body on pixel p; t is the gradient parameter of a
\* pixel that is selected
put(p, fl, t) ==
    IF p.a = 0 THEN [hit |-> "transparent", out |-> Transparent]
    ELSE IF is_reddish_or_pink(p.r, p.g, p.b, fl)
    THEN [hit |-> "reddish", out |-> Recolored(p, t)]
    ELSE [hit |-> "other", out |-> p]

\* for y in range(h): for x in range(w): r, g, b, a = px[x, y]; ...
PaintPixel ==
    /\ ppc = "loop"
    /\ xy < size
    /\ \E p \in Pixels :
          \E fl \in FloatTiesAt(p.r, p.g, p.b) :
             \E t \in IF p.a # 0 /\ is_reddish_or_pink(p.r, p.g, p.b, fl)
                       THEN final_t(p.r, p.g, p.b, PALETTES[version])
                       ELSE {0} :
                LET o == put(p, fl, t)
                IN  /\ px' = p
                    /\ hit' = o.hit
                    /\ outpx' = o.out
    /\ xy' = xy + 1
    /\ UNCHANGED <<version, input_file, ppc, perr, opened, size, saved, grad>>
    /\ UNCHANGED notPaint

\* out.save(out_path): the file is written, or the write fails
PaintSave ==
    /\ ppc = "loop"
    /\ xy = size
    /\ \/ saved' = TRUE /\ ppc' = "returned" /\ perr' = perr
       \/ saved' = saved /\ PaintRaise("IOError")
    /\ UNCHANGED <<version, input_file, opened, size, xy, px, hit, outpx, grad>>
    /\ UNCHANGED notPaint

\* some code calls TransmutationTabletPainter.gradient_color(stops, t) with the
\* stops of a palette and t = j / (4 * TSub)
CallGradientColor ==
    /\ ppc = "idle"
    /\ ~grad.called
    /\ \E v \in Versions, j \in -1 .. 4 * TSub + 1 :
          grad' = [called |-> TRUE, version |-> v, tn |-> j, td |-> 4 * TSub,
                   rgb |-> gradient_color(PALETTES[v].stops, j, 4 * TSub)]
    /\ UNCHANGED <<version, input_file, ppc, perr, opened, size, xy, px, hit, outpx, saved>>
    /\ UNCHANGED notPaint

PaintNext ==
    \/ PaintCheckVersion
    \/ PaintOpen
    \/ PaintPixel
    \/ PaintSave
    \/ CallGradientColor

PaintSpecInit == ApplyIdle /\ RecipeIdle /\ PaintInit /\ HelperIdle /\ PairIdle /\ BatchIdle

PaintSpec == PaintSpecInit /\ [][PaintNext]_vars

(***************************************************************************)
(* The workspace helpers: read_json, write_json, read_toml, write_toml,    *)
(* remove_file, remove_dir.  A path is the sequence of its components from *)
(* the root of the file system.                                            *)
(***************************************************************************)
\* self.work_dir = Path.home() / ".cache" / self.code
WorkDir == <<"home", ".cache", "code">>

\* the components a rel argument is made of, and the names of keep and delete
Segs == {"..", "data", "r.json"}
\* the entries a keep or delete list is made of: file names, and one with a
\* directory in front
NameArgs == {<<"r.json">>, <<"m.toml">>, <<"data", "r.json">>}

\* Path(x).name
name_of(x) == x[Len(x)]

\* the file system after the extraction: two files and a directory with two
\* files in the workspace; a file beside the workspace or none
Dirs0 == {<<>>, <<"home">>, <<"home", ".cache">>, WorkDir, WorkDir \o <<"data">>}
WorkFiles0 == {WorkDir \o <<"r.json">>, WorkDir \o <<"m.toml">>,
               WorkDir \o <<"data", "r.json">>, WorkDir \o <<"data", "m.toml">>}
Outside0 == <<"home", ".cache", "r.json">>

\* the rel arguments: relative paths of up to MaxSegs components, and
\* absolute paths
RelPaths == UNION {[1 .. n -> Segs] : n \in 1 .. MaxSegs}
Rels == {[abs |-> FALSE, parts |-> p] : p \in RelPaths}
        \cup {[abs |-> TRUE, parts |-> p] : p \in {Outside0, WorkDir \o <<"r.json">>, <<"home">>}}

Parent(p) == IF p = <<>> THEN <<>> ELSE SubSeq(p, 1, Len(p) - 1)

\* a path that names nothing
NoPath == <<"", "">>

\* self.work_dir / rel: an absolute rel replaces work_dir
Joined(rel) == IF rel.abs THEN rel.parts ELSE WorkDir \o rel.parts

\* Path.resolve(): ".." components are folded into the path
RECURSIVE resolve_from(_, _)
resolve_from(at, parts) ==
    IF parts = <<>> THEN at
    ELSE IF Head(parts) = ".." THEN resolve_from(Parent(at), Tail(parts))
    ELSE resolve_from(Append(at, Head(parts)), Tail(parts))

resolve(parts) == resolve_from(<<>>, parts)

\* the file the operating system reaches for a path: each component is
\* looked up in a directory, ".." is the parent directory
RECURSIVE walk_from(_, _)
walk_from(at, parts) ==
    IF parts = <<>> THEN at
    ELSE IF at \notin dirs THEN NoPath
    ELSE IF Head(parts) = ".." THEN walk_from(Parent(at), Tail(parts))
    ELSE walk_from(Append(at, Head(parts)), Tail(parts))

walk(parts) == walk_from(<<>>, parts)

\* p is d or below d
Under(p, d) == Len(p) >= Len(d) /\ SubSeq(p, 1, Len(d)) = d

\* the script is about to call a helper
HelperInit ==
    /\ dirs = Dirs0
    /\ files \in {WorkFiles0, WorkFiles0 \cup {Outside0}}
    /\ files0 = files
    /\ hcall = [name |-> "none"]
    /\ hresult = "none"
    /\ accessed = {}

\* with open(self.work_dir / rel, "r") as f: ...   and   toml.load(self.work_dir / rel)
ReadAt(name, rel) ==
    LET p == walk(Joined(rel))
    IN  /\ hcall' = [name |-> name, rel |-> rel]
        /\ IF p \in files
           THEN hresult' = "ok" /\ accessed' = {[path |-> p, mode |-> "read"]}
           ELSE /\ hresult' = IF p \in dirs THEN "IsADirectoryError" ELSE "FileNotFoundError"
                /\ accessed' = {}
        /\ UNCHANGED <<dirs, files>>

\* with open(self.work_dir / rel, "w") as f: ...
WriteAt(name, rel) ==
    LET p == walk(Joined(rel))
    IN  /\ hcall' = [name |-> name, rel |-> rel]
        /\ IF p \in dirs
           THEN hresult' = "IsADirectoryError" /\ accessed' = {} /\ files' = files
           ELSE IF p = NoPath \/ Parent(p) \notin dirs
           THEN hresult' = "FileNotFoundError" /\ accessed' = {} /\ files' = files
           ELSE /\ hresult' = "ok"
                /\ accessed' = {[path |-> p, mode |-> "write"]}
                /\ files' = files \cup {p}
        /\ UNCHANGED dirs

read_json ==
    /\ hresult = "none"
    /\ \E rel \in Rels : ReadAt("read_json", rel)
    /\ UNCHANGED files0
    /\ UNCHANGED notHelper

write_json ==
    /\ hresult = "none"
    /\ \E rel \in Rels : WriteAt("write_json", rel)
    /\ UNCHANGED files0
    /\ UNCHANGED notHelper

read_toml ==
    /\ hresult = "none"
    /\ \E rel \in Rels : ReadAt("read_toml", rel)
    /\ UNCHANGED files0
    /\ UNCHANGED notHelper

write_toml ==
    /\ hresult = "none"
    /\ \E rel \in Rels : WriteAt("write_toml", rel)
    /\ UNCHANGED files0
    /\ UNCHANGED notHelper

\* a choice of the files to delete that takes keep for a delete list
to_delete_listed(fl, keep, delete) ==
    IF delete.given
    THEN {p \in fl : name_of(p) \in {name_of(x) : x \in delete.val}}
    ELSE {p \in fl : name_of(p) \in {name_of(x) : x \in keep.val}}

\* to_delete, from the regular files of the directory:
\* targets = {Path(x).name for x in delete}, or keep_set likewise
to_delete(fl, keep, delete) ==
    IF delete.given
    THEN {p \in fl : name_of(p) \in {name_of(x) : x \in delete.val}}
    ELSE {p \in fl : name_of(p) \notin {name_of(x) : x \in keep.val}}

\* remove_file(rel, keep=..., delete=...)
remove_file ==
    /\ hresult = "none"
    /\ \E rel \in Rels, keep \in {None} \cup {Some(s) : s \in SUBSET NameArgs},
          delete \in {None} \cup {Some(s) : s \in SUBSET NameArgs} :
          LET dir_path == resolve(Joined(rel))
              here == {f \in files : Parent(f) = dir_path}
          IN  /\ hcall' = [name |-> "remove_file", rel |-> rel, keep |-> keep, delete |-> delete]
              /\ IF keep.given = delete.given
                 THEN hresult' = "ValueError" /\ accessed' = {} /\ files' = files
                 ELSE IF dir_path \notin dirs
                 THEN hresult' = "NotADirectoryError" /\ accessed' = {} /\ files' = files
                 ELSE /\ hresult' = "ok"
                      /\ accessed' = {[path |-> f, mode |-> "delete"] :
                                        f \in to_delete(here, keep, delete)}
                      /\ files' = files \ to_delete(here, keep, delete)
    /\ UNCHANGED dirs
    /\ UNCHANGED files0
    /\ UNCHANGED notHelper

\* remove_dir(rel)
remove_dir ==
    /\ hresult = "none"
    /\ \E rel \in Rels :
          LET dir_path == walk(Joined(rel))
          IN  /\ hcall' = [name |-> "remove_dir", rel |-> rel]
              /\ hresult' = "ok"
              /\ IF dir_path \in dirs
                 THEN /\ dirs' = {d \in dirs : ~Under(d, dir_path)}
                      /\ files' = {f \in files : ~Under(f, dir_path)}
                      /\ accessed' = {[path |-> q, mode |-> "delete"] :
                                        q \in {x \in dirs \cup files : Under(x, dir_path)}}
                 ELSE UNCHANGED <<dirs, files>> /\ accessed' = {}
    /\ UNCHANGED files0
    /\ UNCHANGED notHelper

HelperNext ==
    \/ read_json
    \/ write_json
    \/ read_toml
    \/ write_toml
    \/ remove_file
    \/ remove_dir

HelperSpecInit == ApplyIdle /\ RecipeIdle /\ PaintIdle /\ HelperInit /\ PairIdle /\ BatchIdle

HelperSpec == HelperSpecInit /\ [][HelperNext]_vars

(***************************************************************************)
(* Two apply() runs on two archives, their steps interleaved.  Each run    *)
(* passes the gate; run() is one deterministic patch.                      *)
(***************************************************************************)
Runs == {1, 2}
Other(i) == 3 - i

\* jar_path of each run: two resolved paths with the same file name
jar_path_of(i) == IF i = 1 THEN "a/x.jar" ELSE "b/x.jar"

\* the output_dir a run can be given
OutputDirs == {"none", "a", "b", "o"}

\* every path a run can name
PairPaths == {"a/x.jar", "b/x.jar", "o/x.jar", "a/x.jar.__new__", "b/x.jar.__new__"}

\* a hash under which every archive path has the same code
code_colliding(p) == "c0"

\* self.code = hashlib.sha256(str(self.jar_path).encode()).hexdigest()[:16],
\* for paths whose codes differ
code(p) == IF p = "a/x.jar" THEN "c1" ELSE "c2"

Codes == {"c0", "c1", "c2"}

\* self.work_dir = Path.home() / ".cache" / self.code, by its name
work_dir_of(i) == code(jar_path_of(i))

\* self.output_path
output_path_of(i) ==
    IF rcfg[i] = "none" THEN jar_path_of(i)
    ELSE IF rcfg[i] = "a" THEN "a/x.jar"
    ELSE IF rcfg[i] = "b" THEN "b/x.jar"
    ELSE "o/x.jar"

writing_to_source_of(i) == output_path_of(i) = jar_path_of(i)

\* out_path of the repack
out_path_of(i) ==
    IF writing_to_source_of(i)
    THEN (IF i = 1 THEN "a/x.jar.__new__" ELSE "b/x.jar.__new__")
    ELSE output_path_of(i)

\* what run() makes of the files of the workspace: it rewrites a.json and
\* leaves the rest
Patched(fl) == {e \in fl : e[1] # "a.json"} \cup {<<"a.json", 1>>}

PairInit ==
    /\ rpc = [i \in Runs |-> "check_exists"]
    /\ rcfg \in [Runs -> OutputDirs]
    /\ pfs = [p \in PairPaths |->
                IF p = "a/x.jar" THEN Archive({<<"a.json", 0>>, <<"b.png", 0>>})
                ELSE IF p = "b/x.jar" THEN Archive({<<"a.json", 0>>, <<"b.png", 1>>})
                ELSE NoFile]
    /\ pfs0 = pfs
    /\ wss = [c \in Codes |-> NoDir]
    /\ touched = [i \in Runs |-> {}]
    /\ outcome = [i \in Runs |-> NoFile]
    /\ overlapped = FALSE

PairEnded(i) == rpc[i] \in {"returned", "raised"}
PairStarted(i) == rpc[i] # "check_exists"

\* run i takes a step: it moves to position p, and the step counts as
\* overlapping when the other run is between its first and last step
PairGoto(i, p) ==
    /\ rpc' = [rpc EXCEPT ![i] = p]
    /\ overlapped' = (overlapped \/ (PairStarted(Other(i)) /\ ~PairEnded(Other(i))))

PairTouch(i) == touched' = [touched EXCEPT ![i] = @ \cup {work_dir_of(i)}]

\* the gate: the source exists (both archives are registered, validate_jar is off)
PairCheckExists(i) ==
    /\ rpc[i] = "check_exists"
    /\ PairGoto(i, IF pfs[jar_path_of(i)].exists THEN "prepare" ELSE "raised")
    /\ UNCHANGED <<rcfg, pfs, pfs0, wss, touched, outcome>>
    /\ UNCHANGED notPair

\* rmtree when the directory exists, then mkdir
PairPrepare(i) ==
    /\ rpc[i] = "prepare"
    /\ wss' = [wss EXCEPT ![work_dir_of(i)] = Dir({})]
    /\ PairTouch(i)
    /\ PairGoto(i, "extract")
    /\ UNCHANGED <<rcfg, pfs, pfs0, outcome>>
    /\ UNCHANGED notPair

\* extractall: raises on a file a writer has not closed yet, which is not an archive
PairExtract(i) ==
    /\ rpc[i] = "extract"
    /\ IF pfs[jar_path_of(i)].exists /\ pfs[jar_path_of(i)].closed /\ wss[work_dir_of(i)].exists
       THEN /\ wss' = [wss EXCEPT ![work_dir_of(i)] =
                          Dir(Extracted(@.files, pfs[jar_path_of(i)].entries))]
            /\ PairTouch(i)
            /\ PairGoto(i, "run")
       ELSE /\ PairGoto(i, "raised")
            /\ UNCHANGED <<wss, touched>>
    /\ UNCHANGED <<rcfg, pfs, pfs0, outcome>>
    /\ UNCHANGED notPair

\* self.run()
PairRun(i) ==
    /\ rpc[i] = "run"
    /\ IF wss[work_dir_of(i)].exists
       THEN /\ wss' = [wss EXCEPT ![work_dir_of(i)] = Dir(Patched(@.files))]
            /\ PairTouch(i)
            /\ PairGoto(i, "repack_open")
       ELSE /\ PairGoto(i, "raised")
            /\ UNCHANGED <<wss, touched>>
    /\ UNCHANGED <<rcfg, pfs, pfs0, outcome>>
    /\ UNCHANGED notPair

\* zipfile.ZipFile(out_path, "w"): creates or truncates the file
PairRepackOpen(i) ==
    /\ rpc[i] = "repack_open"
    /\ pfs' = [pfs EXCEPT ![out_path_of(i)] = [exists |-> TRUE, entries |-> {}, closed |-> FALSE]]
    /\ PairGoto(i, "repack_write")
    /\ UNCHANGED <<rcfg, pfs0, wss, touched, outcome>>
    /\ UNCHANGED notPair

\* the z.write of every file of the workspace, and the close of the archive
PairRepackWrite(i) ==
    /\ rpc[i] = "repack_write"
    /\ pfs' = [pfs EXCEPT ![out_path_of(i)] =
                 [exists |-> TRUE, entries |-> @.entries \cup wss[work_dir_of(i)].files,
                  closed |-> TRUE]]
    /\ PairTouch(i)
    /\ PairGoto(i, IF writing_to_source_of(i) THEN "replace" ELSE "rmtree")
    /\ UNCHANGED <<rcfg, pfs0, wss, outcome>>
    /\ UNCHANGED notPair

\* os.replace(out_path, self.output_path)
PairReplace(i) ==
    /\ rpc[i] = "replace"
    /\ IF pfs[out_path_of(i)].exists
       THEN /\ pfs' = [pfs EXCEPT ![output_path_of(i)] = pfs[out_path_of(i)],
                                  ![out_path_of(i)] = NoFile]
            /\ PairGoto(i, "rmtree")
       ELSE /\ PairGoto(i, "raised")
            /\ UNCHANGED pfs
    /\ UNCHANGED <<rcfg, pfs0, wss, touched, outcome>>
    /\ UNCHANGED notPair

\* shutil.rmtree(self.work_dir), and the return of apply()
PairRmtree(i) ==
    /\ rpc[i] = "rmtree"
    /\ IF wss[work_dir_of(i)].exists
       THEN /\ wss' = [wss EXCEPT ![work_dir_of(i)] = NoDir]
            /\ PairTouch(i)
            /\ outcome' = [outcome EXCEPT ![i] = pfs[output_path_of(i)]]
            /\ PairGoto(i, "returned")
       ELSE /\ PairGoto(i, "raised")
            /\ UNCHANGED <<wss, touched, outcome>>
    /\ UNCHANGED <<rcfg, pfs, pfs0>>
    /\ UNCHANGED notPair

PairNext ==
    \E i \in Runs :
        \/ PairCheckExists(i)
        \/ PairPrepare(i)
        \/ PairExtract(i)
        \/ PairRun(i)
        \/ PairRepackOpen(i)
        \/ PairRepackWrite(i)
        \/ PairReplace(i)
        \/ PairRmtree(i)

PairSpecInit == ApplyIdle /\ RecipeIdle /\ PaintIdle /\ HelperIdle /\ PairInit /\ BatchIdle

PairSpec == PairSpecInit /\ [][PairNext]_vars

(***************************************************************************)
(* The batch driver: find_jar_files(), process_jar() and main() of         *)
(* src/build.py.  An archive is named by its place in the sorted order of  *)
(* the file names.                                                         *)
(***************************************************************************)
\* at most this many *.jar files in the source directory
MaxJars == 3
JarNames == 1 .. MaxJars
\* the file names that are keys of META[mod_name]
Registered == {n \in JarNames : n % 3 # 0}
\* how patcher_class(...).apply() ends: by return, or by an exception
ApplyOutcomes == {"ok", "ValueError", "OSError", "Exception"}

\* sorted(jar_files)
RECURSIVE sorted(_)
sorted(S) == IF S = {} THEN <<>>
             ELSE LET m == CHOOSE x \in S : \A y \in S : x <= y
                  IN <<m>> \o sorted(S \ {m})

\* a process_jar without the except clause: the exception of apply() leaves it
process_jar_uncaught(mod_ok, jar, o) ==
    IF ~mod_ok \/ jar \notin Registered
    THEN [result |-> "False", applied |-> FALSE]
    ELSE [result |-> IF o = "ok" THEN "True" ELSE "raised", applied |-> TRUE]

\* process_jar(mod_name, jar_path, output_dir, validate_jar), where apply()
\* ends with o if it is called: the value returned, and whether apply() ran
process_jar(mod_ok, jar, o) ==
    IF ~mod_ok THEN [result |-> "False", applied |-> FALSE]
    ELSE IF jar \notin Registered THEN [result |-> "False", applied |-> FALSE]
    ELSE IF o = "ok" THEN [result |-> "True", applied |-> TRUE]
    ELSE [result |-> "False", applied |-> TRUE]

BatchInit ==
    /\ bpc = "check_mod"
    /\ mod_in_meta \in BOOLEAN
    /\ src_jars \in SUBSET JarNames
    /\ jar_files = <<>>
    /\ iterations = 0
    /\ success_count = 0
    /\ skip_count = 0
    /\ fail_count = 0
    /\ calls = <<>>
    /\ exit_code = -1

\* if args.mod_name not in META: ... sys.exit(1)
MainCheckMod ==
    /\ bpc = "check_mod"
    /\ IF mod_in_meta
       THEN bpc' = "find" /\ exit_code' = exit_code
       ELSE bpc' = "exited" /\ exit_code' = 1
    /\ UNCHANGED <<mod_in_meta, src_jars, jar_files, iterations, success_count,
                   skip_count, fail_count, calls>>
    /\ UNCHANGED notBatch

\* jar_files = find_jar_files(args.mod_name); if not jar_files: sys.exit(1);
\* then the three counters are set to 0
MainFind ==
    /\ bpc = "find"
    /\ jar_files' = sorted(src_jars)
    /\ IF src_jars = {}
       THEN bpc' = "exited" /\ exit_code' = 1
       ELSE bpc' = "loop" /\ exit_code' = exit_code
    /\ success_count' = 0
    /\ skip_count' = 0
    /\ fail_count' = 0
    /\ UNCHANGED <<mod_in_meta, src_jars, iterations, calls>>
    /\ UNCHANGED notBatch

\* one iteration of for jar_path in jar_files: the call of process_jar and
\* the count of its result; an exception that leaves process_jar leaves main
MainIteration ==
    /\ bpc = "loop"
    /\ iterations < Len(jar_files)
    /\ \E o \in ApplyOutcomes :
          LET jar == jar_files[iterations + 1]
              r == process_jar(mod_in_meta, jar, o)
          IN /\ calls' = Append(calls, [jar |-> jar, applied |-> r.applied,
                                        outcome |-> IF r.applied THEN o ELSE "none"])
             /\ IF r.result = "raised"
                THEN /\ bpc' = "traceback"
                     /\ UNCHANGED <<iterations, success_count, skip_count, fail_count>>
                ELSE /\ bpc' = bpc
                     /\ iterations' = iterations + 1
                     /\ success_count' =
                            IF r.result = "True" THEN success_count + 1 ELSE success_count
                     /\ skip_count' =
                            IF r.result = "False" /\ jar \notin Registered
                            THEN skip_count + 1 ELSE skip_count
                     /\ fail_count' =
                            IF r.result = "False" /\ jar \in Registered
                            THEN fail_count + 1 ELSE fail_count
    /\ UNCHANGED <<mod_in_meta, src_jars, jar_files, exit_code>>
    /\ UNCHANGED notBatch

\* after the loop: the statistics are printed and the exit code is set
MainReport ==
    /\ bpc = "loop"
    /\ iterations = Len(jar_files)
    /\ bpc' = "reported"
    /\ exit_code' = IF fail_count > 0 THEN 1
                    ELSE IF success_count = 0 THEN 1 ELSE 0
    /\ UNCHANGED <<mod_in_meta, src_jars, jar_files, iterations, success_count,
                   skip_count, fail_count, calls>>
    /\ UNCHANGED notBatch

BatchNext ==
    \/ MainCheckMod
    \/ MainFind
    \/ MainIteration
    \/ MainReport

BatchSpecInit ==
    ApplyIdle /\ RecipeIdle /\ PaintIdle /\ HelperIdle /\ PairIdle /\ BatchInit

BatchSpec == BatchSpecInit /\ [][BatchNext]_vars

(***************************************************************************)
(* Claims about modify_recipe().                                           *)
(***************************************************************************)
Called == result.status # "none"

\* the distinct characters other than the space over all rows of a pattern
SymbolsOf(pattern) ==
    UNION {{pattern[r][i] : i \in DOMAIN pattern[r]} : r \in DOMAIN pattern} \ {" "}

\* a symbol is named in the updates and listed in the removals
ConflictIn(c) ==
    /\ c.keys_to_remove.given
    /\ \E i \in DOMAIN c.keys_to_remove.val :
          c.keys_to_remove.val[i] \in DOMAIN c.keys_to_update

\* some update value is no string
NonStringIn(c) == \E k \in DOMAIN c.keys_to_update : ~c.keys_to_update[k].isstr

\* C5: whenever modify_recipe returns, the document on disk has exactly the
\* symbols of its key mapping as the non-space characters of its pattern.
C5_PatternMatchesKey ==
    result.status = "ok" =>
        /\ disk.exists
        /\ SymbolsOf(disk.doc.pattern) = DOMAIN disk.doc.key

\* a call with updates, removals and a new pattern that returned and changed the file
C5_Witness ==
    /\ result.status = "ok"
    /\ call.keys_to_update # <<>>
    /\ call.keys_to_remove.given /\ call.keys_to_remove.val # <<>>
    /\ call.pattern.given
    /\ DOMAIN disk.doc.key # DOMAIN before.doc.key
    /\ disk.doc.pattern # before.doc.pattern

\* the document the call's removals, updates and pattern lead to
Edited == edit(before.doc, call, normalize_all(call.keys_to_update).val).data

\* the call has a document to edit and bindings to edit it with
Editable ==
    /\ Called
    /\ before.exists
    /\ ~NonStringIn(call)

\* C6: when the edited recipe's pattern symbols differ from its key set, the
\* call raises and the file is what it was before the call; the error is the
\* schema error (the ValueError of line 353) for every call that passed the
\* conflict check.
C6_MismatchRaisesFileKept ==
    (Editable /\ SymbolsOf(Edited.pattern) # DOMAIN Edited.key) =>
        /\ result.status = "raised"
        /\ result.exc = "ValueError"
        /\ ~ConflictIn(call) => result.site = "schema"
        /\ disk = before

\* a removal of a symbol the unchanged pattern still uses, refused
C6_Witness ==
    /\ result.site = "schema"
    /\ ~call.pattern.given
    /\ call.keys_to_remove.given
    /\ \E i \in DOMAIN call.keys_to_remove.val :
          call.keys_to_remove.val[i] \in SymbolsOf(before.doc.pattern)
                                          \cap DOMAIN before.doc.key

\* C7: a call with a symbol both in the updates and in the removals raises
\* the conflict error with the file untouched and no removal attempted.
C7_ConflictRaisesFirst ==
    (Called /\ ConflictIn(call)) =>
        /\ result = [status |-> "raised", exc |-> "ValueError", site |-> "conflict"]
        /\ disk = before
        /\ printed = <<>>

\* a conflicting call on an existing recipe whose conflict is not at the
\* head of the removals
C7_Witness ==
    /\ result.site = "conflict"
    /\ before.exists
    /\ Head(call.keys_to_remove.val) \notin DOMAIN call.keys_to_update

\* binding b is what the string v normalises to: v is some whitespace, a core
\* that neither starts nor ends with whitespace, and some whitespace; b is the
\* one tag binding of the core's rest when the core starts with '#', and the
\* one item binding of the core otherwise
IsNormalOf(b, v) ==
    \E i \in 0..Len(v), j \in 0..Len(v) :
        /\ i + j <= Len(v)
        /\ \A n \in 1..i : v[n] \in Whitespace
        /\ \A n \in (Len(v) - j + 1)..Len(v) : v[n] \in Whitespace
        /\ LET core == SubSeq(v, i + 1, Len(v) - j)
           IN /\ core # <<>> => (core[1] \notin Whitespace
                                 /\ core[Len(core)] \notin Whitespace)
              /\ Len(b) = 1
              /\ IF core # <<>> /\ core[1] = "#"
                 THEN b[1] = [tag |-> SubSeq(core, 2, Len(core))]
                 ELSE b[1] = [item |-> core]

\* C8: after a call that returned, every updated symbol is bound to the list
\* of exactly one binding its string value normalises to.
C8_BindingNormalised ==
    result.status = "ok" =>
        \A k \in DOMAIN call.keys_to_update :
            /\ k \in DOMAIN disk.doc.key
            /\ IsNormalOf(disk.doc.key[k], call.keys_to_update[k].s)

\* the value " #x " stored as the tag binding of "x"
C8_Witness ==
    /\ result.status = "ok"
    /\ \E k \in DOMAIN call.keys_to_update :
          /\ call.keys_to_update[k].s = <<" ", "#", "x", " ">>
          /\ disk.doc.key[k] = <<[tag |-> <<"x">>]>>
          /\ disk.doc.key[k] # before.doc.key[k]

\* C9: a call with an update value that is no string raises, applies none of
\* its updates and leaves the file as it was; the error is the ValueError of
\* line 328 whenever the call passes the conflict check and reads the file.
C9_NonStringRejected ==
    (Called /\ NonStringIn(call)) =>
        /\ result.status = "raised"
        /\ disk = before
        /\ before.exists => result.exc = "ValueError"
        /\ (before.exists /\ ~ConflictIn(call)) => result.site = "binding"

\* a call with a string value and a value that is no string, refused
C9_Witness ==
    /\ result.site = "binding"
    /\ \E k \in DOMAIN call.keys_to_update : call.keys_to_update[k].isstr
    /\ before.exists

\* the listed removals that the document's key mapping does not hold
AbsentRemovals ==
    {k \in ToSet(call.keys_to_remove.val) : k \notin DOMAIN before.doc.key}

\* the call without them
WithoutAbsent ==
    [call EXCEPT !.keys_to_remove =
        Some(SelectSeq(call.keys_to_remove.val,
                       LAMBDA k : k \in DOMAIN before.doc.key))]

UpdatesOnly ==
    /\ call.keys_to_remove.given => call.keys_to_remove.val = <<>>
    /\ ~call.pattern.given

\* C11: after a call with updates only that returned, the file read back has
\* for every updated symbol the binding its value normalises to, in place of
\* any earlier one, and the pattern, the bindings of all other symbols and
\* the other top-level fields it had before.
C11_UpdatesOnlyFrame ==
    (result.status = "ok" /\ UpdatesOnly) =>
        /\ DOMAIN disk.doc.key = DOMAIN before.doc.key \cup DOMAIN call.keys_to_update
        /\ \A k \in DOMAIN call.keys_to_update :
              IsNormalOf(disk.doc.key[k], call.keys_to_update[k].s)
        /\ \A k \in DOMAIN before.doc.key \ DOMAIN call.keys_to_update :
              disk.doc.key[k] = before.doc.key[k]
        /\ disk.doc.pattern = before.doc.pattern
        /\ DOMAIN disk.doc = DOMAIN before.doc
        /\ \A f \in DOMAIN disk.doc \ {"key"} : disk.doc[f] = before.doc[f]

\* an update that overwrote one symbol's binding and kept another symbol's
C11_Witness ==
    /\ result.status = "ok"
    /\ UpdatesOnly
    /\ \E k \in DOMAIN call.keys_to_update :
          /\ k \in DOMAIN before.doc.key
          /\ disk.doc.key[k] # before.doc.key[k]
    /\ DOMAIN before.doc.key \ DOMAIN call.keys_to_update # {}

(***************************************************************************)
(* Claims about paint(), is_reddish_or_pink() and gradient_color().        *)
(***************************************************************************)
\* the loop has read a pixel and put one in its place
Visited == px # NoPixel

C13_AlphaPreserved ==
    Visited => outpx.a = px.a

\* a half-transparent pixel was recoloured and kept its alpha
C13_Witness ==
    /\ Visited
    /\ hit = "reddish"
    /\ px.a = 128
    /\ <<outpx.r, outpx.g, outpx.b>> # <<px.r, px.g, px.b>>
    /\ outpx.a = 128

\* C14: a pixel with alpha > 0 that is_reddish_or_pink did not select is
\* put with exactly the R, G, B and alpha it had, under every palette.
C14_UnselectedUnchanged ==
    (Visited /\ px.a > 0 /\ hit # "reddish") => (hit = "other" /\ outpx = px)

\* a pixel that was not selected was put under a palette with a gamma
C14_Witness ==
    /\ Visited
    /\ px.a > 0
    /\ hit = "other"
    /\ PALETTES[version].t_gamma # 100
    /\ outpx = px

\* the RGB test as the claim writes it
RgbTest(p) ==
    \/ p.r >= 140 /\ p.r >= p.g + 8 /\ p.r >= p.b + 8
    \/ p.r >= 200 /\ (p.g >= 150 \/ p.b >= 150)

\* C15: a pixel that passes the RGB test is selected whatever the HSV test
\* says; (144, 50, 50) is selected and the gray (100, 100, 100) is not.
C15_RgbTestSelects ==
    (Visited /\ px.a > 0) =>
        /\ RgbTest(px) => hit = "reddish"
        /\ <<px.r, px.g, px.b>> = <<144, 50, 50>> => hit = "reddish"
        /\ <<px.r, px.g, px.b>> = <<100, 100, 100>> => hit = "other"

\* a pixel was selected by the RGB test alone
C15_Witness ==
    /\ Visited
    /\ px.a > 0
    /\ RgbTest(px)
    /\ \A fl \in FloatTies : ~hsv_hit(px.r, px.g, px.b, fl)
    /\ hit = "reddish"

\* C16: for every palette and every k in 0 .. 4, gradient_color(stops, k / 4)
\* is stops[k] itself (the k-th stop counting from 0): no drift at 0.25,
\* 0.5 and 0.75, the first stop at 0 and the last stop at 1.
C16_StopsExact ==
    grad.called =>
        \A k \in 0 .. 4 :
            4 * grad.tn = k * grad.td => grad.rgb = PALETTES[grad.version].stops[k + 1]

\* gradient_color was called at t = 0.75 with stops that differ around it
C16_Witness ==
    /\ grad.called
    /\ 4 * grad.tn = 3 * grad.td
    /\ PALETTES[grad.version].stops[3] # PALETTES[grad.version].stops[4]
    /\ PALETTES[grad.version].stops[5] # PALETTES[grad.version].stops[4]
    /\ grad.rgb = PALETTES[grad.version].stops[4]

\* C17: paint() of a painter whose version is not a key of PALETTES ends in
\* the ValueError of the version test, with the input image never opened
\* and the output path never written.
C17_UnknownVersionRaisesFirst ==
    (version \notin DOMAIN PALETTES /\ ppc \notin {"idle", "check_version"}) =>
        /\ ppc = "raised"
        /\ perr = "ValueError"
        /\ ~opened
        /\ ~saved

\* paint() was called with an unknown version, over an input that exists
C17_Witness ==
    /\ version \notin DOMAIN PALETTES
    /\ input_file = "image"
    /\ ppc = "raised"

(***************************************************************************)
(* Claims about the workspace helpers.                                     *)
(***************************************************************************)
\* C20: whatever rel a helper is given, with ".." components or absolute,
\* every path it reads, writes or deletes lies below the workspace root.
C20_HelpersStayInside ==
    \A x \in accessed : Under(x.path, WorkDir) /\ x.path # WorkDir

(***************************************************************************)
(* Claims about two runs side by side.                                     *)
(***************************************************************************)
\* the output archive run i produces when it runs alone
AloneOutput(i) == Archive(Patched(pfs0[jar_path_of(i)].entries))

\* no run has touched the other run's workspace; a run that has ended has
\* returned, and the file at its output path was then, and is once both
\* have ended, the one it produces alone
RunsIsolated ==
    \A i \in Runs :
        /\ work_dir_of(Other(i)) \notin touched[i]
        /\ PairEnded(i) => (rpc[i] = "returned" /\ outcome[i] = AloneOutput(i))
        /\ (PairEnded(1) /\ PairEnded(2)) => pfs[output_path_of(i)] = AloneOutput(i)

\* the source, temporary and output paths of one run are none of the other's
PathsApart ==
    {jar_path_of(1), out_path_of(1), output_path_of(1)}
        \cap {jar_path_of(2), out_path_of(2), output_path_of(2)} = {}

\* C23 as stated: for two runs on archives with distinct resolved paths and
\* distinct codes, under every interleaving neither run touches the other's
\* workspace and each run's output is the one it produces alone.
C23_DistinctArchivesIsolated ==
    (jar_path_of(1) # jar_path_of(2) /\ work_dir_of(1) # work_dir_of(2)) => RunsIsolated

\* C23, amended: for two runs on archives with distinct resolved paths and
\* distinct codes, whose source, temporary and output paths are none of the
\* other run's, under every interleaving neither run touches the other's
\* workspace, both return, and each run's output is the one it produces alone.
C23_ApartRunsIsolated ==
    PathsApart => RunsIsolated

\* two runs whose steps overlapped have both returned, one in place and one
\* to an output directory
C23_Witness ==
    /\ PathsApart
    /\ overlapped
    /\ rpc[1] = "returned" /\ rpc[2] = "returned"
    /\ writing_to_source_of(1)
    /\ ~writing_to_source_of(2)
    /\ pfs[output_path_of(2)] = AloneOutput(2)
    /\ pfs[jar_path_of(1)] = AloneOutput(1)

\* the base names of the entries of a keep or delete list
NamesIn(l) == {x[Len(x)] : x \in l}

\* the regular files directly inside the directory a remove_file call names
InsideDir == {f \in files0 : Parent(f) = resolve(Joined(hcall.rel))}

\* C24: remove_file with both or neither of keep and delete raises ValueError
\* and deletes nothing.  With keep alone it deletes exactly the regular
\* files directly inside the directory whose base name is not one of keep;
\* with delete alone, exactly those whose base name is one of delete.
\* Directories, files below subdirectories and files outside the directory
\* stay.
C24_RemoveFileExact ==
    hcall.name = "remove_file" =>
        /\ dirs = Dirs0
        /\ files \subseteq files0
        /\ hcall.keep.given = hcall.delete.given =>
              (hresult = "ValueError" /\ files = files0)
        /\ hcall.keep.given # hcall.delete.given =>
              /\ hresult \in {"ok", "NotADirectoryError"}
              /\ hresult # "ok" => files = files0
              /\ (hresult = "ok" /\ hcall.keep.given) =>
                    files0 \ files =
                        {f \in InsideDir : f[Len(f)] \notin NamesIn(hcall.keep.val)}
              /\ (hresult = "ok" /\ hcall.delete.given) =>
                    files0 \ files =
                        {f \in InsideDir : f[Len(f)] \in NamesIn(hcall.delete.val)}

\* remove_file with keep deleted a file of the workspace root, kept one,
\* and left the files of the subdirectory
C24_Witness ==
    /\ hcall.name = "remove_file"
    /\ hresult = "ok"
    /\ hcall.keep.given
    /\ resolve(Joined(hcall.rel)) = WorkDir
    /\ WorkDir \o <<"m.toml">> \notin files
    /\ WorkDir \o <<"r.json">> \in files
    /\ WorkDir \o <<"data", "m.toml">> \in files

(***************************************************************************)
(* Claims about apply().                                                   *)
(***************************************************************************)
Returned == pc \in {"returned", "raised"}

\* C1: whenever apply() has created the workspace directory and control is
\* back with the caller, by return or by raise, the directory is gone.
C1_WorkspaceGoneOnExit == (Returned /\ created) => ~work_dir.exists

\* the archive the repack of this run builds, complete and closed
NewArchive(f) == f.exists /\ f.closed /\ f.entries = packed

\* C2: in in-place mode the file at jar_path is, in every state of apply()
\* (the states a crash can freeze included), the whole original archive or
\* the whole new one, and the rename is reached only with the new archive
\* fully written and closed at the ".__new__" path.
C2_InPlaceAtomic ==
    writing_to_source =>
        /\ fs["jar"] = fs0["jar"] \/ NewArchive(fs["jar"])
        /\ pc = "replace" => NewArchive(fs["new"])

\* the in-place run that renamed a new archive over a different original
C2_Witness ==
    /\ writing_to_source
    /\ pc = "returned"
    /\ fs["jar"] # fs0["jar"]
    /\ NewArchive(fs["jar"])

\* an archive this run wrote at the path and did not complete
Partial(f, f0) == f.exists /\ f # f0 /\ ~NewArchive(f)

\* C3: after a failed apply() the output path holds no partially written
\* archive, in in-place mode and with a separate output directory.
C3_NoPartialOutput ==
    pc = "raised" => ~Partial(fs[output_path], fs0[output_path])

\* validation is on and the archive's MD5 is not the registered one
Mismatch ==
    /\ cfg.validate_jar
    /\ cfg.registered
    /\ fs0["jar"].exists
    /\ md5(fs0["jar"]) # expected_md5

\* C4: with validation on and an MD5 other than the registered one, apply()
\* never gets past the gate: it raises the MD5 error, the workspace is
\* neither cleared nor created nor written, and no file is created or changed.
C4_ChecksumGate ==
    Mismatch =>
        /\ pc \in {"check_exists", "check_meta", "check_md5", "raised", "crashed"}
        /\ pc = "raised" => err = "ValueError_md5"
        /\ ~created
        /\ work_dir = work_dir0
        /\ fs = fs0

\* the run that raised the MD5 error
C4_Witness == Mismatch /\ pc = "raised" /\ err = "ValueError_md5"

\* C18: when no file is at the source path, apply() ends at its first test
\* with FileNotFoundError: it never reaches the checksum, the workspace is
\* neither cleared nor created, and no file at the source, temporary or
\* output path changes.
C18_MissingSourceRaisesFirst ==
    ~fs0["jar"].exists =>
        /\ pc \in {"check_exists", "raised", "crashed"}
        /\ pc = "raised" => err = "FileNotFoundError"
        /\ fs = fs0
        /\ work_dir = work_dir0
        /\ ~created

\* apply() raised for a missing source with a stale workspace and an old
\* output file in place
C18_Witness ==
    /\ ~fs0["jar"].exists
    /\ pc = "raised"
    /\ err = "FileNotFoundError"
    /\ work_dir0.exists
    /\ work_dir.exists
    /\ fs0["out"].exists

\* C19: when the output path is not the source path, the file at the source
\* path is, in every state of the run and after it, the file that was there
\* when apply() was called, whether the run returns, raises or is killed.
C19_SourceUntouched ==
    ~writing_to_source => fs["jar"] = fs0["jar"]

\* a run to another output path returned with a new archive written there
C19_Witness ==
    /\ ~writing_to_source
    /\ pc = "returned"
    /\ fs["out"] # fs0["out"]
    /\ fs["jar"].exists
    /\ fs["jar"] = fs0["jar"]

\* C21: the deletion of the workspace at the end of apply() is not an error
\* when the directory is already gone: a run whose patch script removed the
\* workspace still returns, and no run ends with the error of that deletion.
C21_DiscardIdempotent ==
    pc = "raised" => err # "rmtree_failed"

\* C22: whatever an earlier run left in the workspace directory, when run()
\* starts the workspace holds exactly the entries of the archive, each under
\* its name with its content, and no other file.
C22_WorkspaceFreshAtRun ==
    (pc = "run" /\ steps = 0) => work_dir = Dir(fs["jar"].entries)

\* run() is about to start in a directory where an earlier run had left a
\* file of the archive with other content and a file the archive has not
C22_Witness ==
    /\ pc = "run"
    /\ steps = 0
    /\ work_dir0.exists
    /\ \E e \in work_dir0.files : e \notin fs["jar"].entries
    /\ work_dir.files = fs["jar"].entries

\* the step of apply() a position belongs to: 1 the gate, 2 the preparation
\* of the workspace, 3 the extraction, 4 run(), 5 the repack with its rename,
\* 6 the deletion of the workspace, 7 the end
StepOf(p) ==
    CASE p \in {"check_exists", "check_meta", "check_md5"} -> 1
      [] p \in {"prepare", "mkdir"} -> 2
      [] p = "extract" -> 3
      [] p = "run" -> 4
      [] p \in {"repack_open", "repack_write", "replace"} -> 5
      [] p = "rmtree" -> 6
      [] OTHER -> 7

\* C25: a run goes through the gate, the preparation of the workspace, the
\* extraction, run(), the repack and the deletion of the workspace in that
\* order, one step at a time: control stays in a step, enters the next one,
\* or leaves apply(); the workspace changes only from the preparation on
\* and the files at the output and temporary paths change only in the
\* repack, so nothing is written while the gate is being passed.
C25_StepsInOrder ==
    [][/\ StepOf(pc') \in {StepOf(pc), StepOf(pc) + 1, 7}
       /\ work_dir' # work_dir => StepOf(pc) \in {2, 3, 4, 6}
       /\ fs' # fs => StepOf(pc) = 5
       /\ pc' = "returned" => StepOf(pc) = 6]_vars

\* a run in place has gone through every step and returned
C25_Witness ==
    /\ pc = "returned"
    /\ writing_to_source
    /\ cfg.validate_jar
    /\ steps > 0
    /\ fs["jar"] # fs0["jar"]
    /\ ~work_dir.exists

\* C26: once the repack of apply() is complete the output archive holds exactly
\* the regular files of the workspace, each under its name with its content,
\* and after the return it holds the files the workspace had when the repack
\* began: what run() deleted is absent, what it added or rewrote is present
\* with the new content.
C26_OutputIsWorkspace ==
    /\ pc = "rmtree" => fs[output_path] = Archive(work_dir.files)
    /\ pc = "returned" => fs[output_path] = Archive(packed)

\* a returned run whose script deleted a.json and rewrote b.png, over an
\* output file an earlier run had left
C26_Witness ==
    /\ pc = "returned"
    /\ steps = MaxRunSteps
    /\ fs0["jar"] = OrigJar
    /\ fs0[output_path] = OldOutput
    /\ packed = {<<"b.png", 1>>}
    /\ fs[output_path].entries = {<<"b.png", 1>>}

\* C27: a call of modify_recipe that returned, made again with the same
\* arguments on the file it wrote, returns again and leaves the file as the
\* first call left it.
C27_ReapplyIdempotent ==
    [][result.status = "ok" => (result'.status = "ok_again" /\ disk' = disk)]_vars

\* a second call after a first one that removed a binding, set another and
\* replaced the pattern; the second call reports the removed symbol as absent
C27_Witness ==
    /\ result.status = "ok_again"
    /\ call.keys_to_remove.given
    /\ \E i \in DOMAIN call.keys_to_remove.val :
          call.keys_to_remove.val[i] \in DOMAIN before.doc.key
    /\ DOMAIN call.keys_to_update # {}
    /\ call.pattern.given
    /\ disk.doc.pattern # before.doc.pattern
    /\ printed # <<>>

\* the calls of process_jar that ended as the test says
CallsWhere(Test(_)) == Cardinality({i \in DOMAIN calls : Test(calls[i])})
Skipped(c) == c.jar \notin Registered
Failed(c) == c.jar \in Registered /\ c.outcome # "ok"
Succeeded(c) == c.jar \in Registered /\ c.outcome = "ok"

\* C28: the batch driver calls process_jar once for every archive found, in
\* the order of the list; no exception of a patch leaves process_jar, so the
\* loop goes on to the archives that follow; an unregistered archive counts
\* as skipped and is not patched, a registered one whose patch raised counts
\* as failed; and when the statistics are printed the three counters add up
\* to the number of archives found.
C28_BatchCountsEveryArchive ==
    /\ bpc # "traceback"
    /\ bpc \in {"loop", "reported"} =>
          /\ Len(calls) = iterations
          /\ \A i \in DOMAIN calls : calls[i].jar = jar_files[i]
          /\ \A i \in DOMAIN calls : calls[i].applied = (calls[i].jar \in Registered)
          /\ skip_count = CallsWhere(Skipped)
          /\ fail_count = CallsWhere(Failed)
          /\ success_count = CallsWhere(Succeeded)
    /\ bpc = "reported" =>
          /\ iterations = Len(jar_files)
          /\ {jar_files[i] : i \in DOMAIN jar_files} = src_jars
          /\ Len(jar_files) = Cardinality(src_jars)
          /\ success_count + skip_count + fail_count = Cardinality(src_jars)

\* a batch of three archives: the patch of the first raised, the second was
\* patched, the third is not registered
C28_Witness ==
    /\ bpc = "reported"
    /\ Len(calls) = 3
    /\ calls[1].outcome = "ValueError"
    /\ calls[2].outcome = "ok"
    /\ ~calls[3].applied
    /\ success_count = 1
    /\ skip_count = 1
    /\ fail_count = 1
    /\ exit_code = 1

\* C29: when the file name of the archive is not registered under the mod
\* name, apply() goes no further than the registry test, with validate_jar
\* set or not: it raises there, the ValueError of line 103 when the source file
\* exists, and the workspace directory is neither created nor cleared, nothing
\* is extracted, and no file at the source, temporary or output path changes.
C29_UnregisteredRaisesEarly ==
    ~cfg.registered =>
        /\ pc \in {"check_exists", "check_meta", "raised", "crashed"}
        /\ (pc = "raised" /\ fs0["jar"].exists) => err = "ValueError_format"
        /\ fs = fs0
        /\ work_dir = work_dir0
        /\ ~created

\* apply() without validation raised for an unregistered archive, a stale
\* workspace and an old output file left in place
C29_Witness ==
    /\ ~cfg.registered
    /\ ~cfg.validate_jar
    /\ pc = "raised"
    /\ err = "ValueError_format"
    /\ fs0["jar"].exists
    /\ work_dir0.exists
    /\ work_dir = work_dir0
    /\ fs0["out"].exists

\* the colour c is selected however the float comparisons fall
NeverSelected(c) == \A fl \in FloatTies : ~is_reddish_or_pink(c[1], c[2], c[3], fl)

\* C30: no colour the gradient of a palette gives is selected by
\* is_reddish_or_pink, so a second pass of the loop body over a pixel the
\* first pass has put puts that pixel again: a recoloured pixel and a
\* transparent one stay as they are, and a pixel the first pass left alone is
\* left alone again.
C30_RecolorIdempotent ==
    /\ (Visited /\ hit = "reddish") =>
          /\ NeverSelected(<<outpx.r, outpx.g, outpx.b>>)
          /\ \A fl \in FloatTies : put(outpx, fl, 0).out = outpx
    /\ (Visited /\ hit = "transparent") =>
          \A fl \in FloatTies : put(outpx, fl, 0).out = outpx
    /\ (Visited /\ hit = "other") =>
          \E fl \in FloatTiesAt(px.r, px.g, px.b) : put(outpx, fl, 0).out = outpx
    /\ grad.called =>
          /\ NeverSelected(grad.rgb)
          /\ \A j \in 0 .. 32 * TSub :
                NeverSelected(gradient_color(PALETTES[grad.version].stops, j, 32 * TSub))

\* a half-transparent selected pixel was recoloured by a palette with a gamma
C30_Witness ==
    /\ Visited
    /\ hit = "reddish"
    /\ PALETTES[version].t_gamma # 100
    /\ px.a = 128
    /\ <<outpx.r, outpx.g, outpx.b>> # <<px.r, px.g, px.b>>
    /\ put(outpx, CHOOSE fl \in FloatTiesAt(outpx.r, outpx.g, outpx.b) : TRUE, 0).hit = "other"

Init == ApplyInit /\ RecipeIdle /\ PaintIdle /\ HelperIdle /\ PairIdle /\ BatchIdle

Next == ApplyNext

Spec == Init /\ [][Next]_vars

====
